---- MODULE Spec2Model ----
(***************************************************************************)
(* BufferWithExtendableBuffer                                              *)
(* (native/jni/src/suggest/policyimpl/dictionary/utils/                    *)
(*  buffer_with_extendable_buffer.h)                                       *)
(*                                                                         *)
(* One instance of the class: a fixed original buffer, a growable          *)
(* additional buffer (std::vector<uint8_t>), the count of used bytes of    *)
(* the additional buffer, and the single mutating operation                *)
(* writeUintAndAdvancePosition(data, size, pos).                           *)
(*                                                                         *)
(* int is 32 bits wide.  A uint32_t value is kept as the pair <<hi, lo>>   *)
(* of its 16-bit halves.  Buffers are sequences of bytes; the byte at      *)
(* C++ offset i is element i + 1.                                          *)
(***************************************************************************)
EXTENDS Integers, Sequences, FiniteSets

(***************************************************************************)
(* Sizes of the model.                                                     *)
(***************************************************************************)
\* Largest originalBufferSize given to the constructor.
MaxOriginalSize == 4

\* The three static const size_t members are declared in the header and
\* set in the .cpp; the model uses small values with the shape the growth
\* policy needs (a growth step is at least the widest write, 4 bytes).
INITIAL_ADDITIONAL_BUFFER_SIZE == 1
EXTEND_ADDITIONAL_BUFFER_SIZE_STEP == 4
MAX_ADDITIONAL_BUFFER_SIZE == 5

\* Positions passed to the write: this many positions past the largest tail.
PositionSlack == 1

(***************************************************************************)
(* 32-bit int arithmetic.                                                  *)
(***************************************************************************)
INT_MAX == 2147483647
INT_MIN == (-2147483647) - 1

\* a + b for int a and 0 <= b, as the hardware adds: modulo 2^32.
WrapAdd(a, b) ==
    IF a > INT_MAX - b THEN INT_MIN + ((a - (INT_MAX - b)) - 1) ELSE a + b

\* Signed overflow is undefined: the comparison that uses the sum either
\* sees the wrapped 32-bit value ("wrap") or is evaluated as if the sum
\* had not overflowed ("wide": wider registers, or the compiler reasoning
\* that overflow cannot happen).
OverflowOutcomes == {"wrap", "wide"}

\* pos + size as it is compared later: v is the 32-bit value, big says that
\* the exact sum exceeds INT_MAX and the comparison sees the exact sum.
IntSum(a, b, ovf) ==
    [v |-> WrapAdd(a, b), big |-> (a > INT_MAX - b) /\ ovf = "wide"]

SumGt(s, x) == s.big \/ s.v > x
SumGeq(s, x) == s.big \/ s.v >= x

\* A store through a pointer outside the buffer is undefined: the process
\* is killed by the fault, or the bytes land in memory that is not part of
\* either buffer and the call goes on.
StrayStoreOutcomes == {"fault", "stray"}

(***************************************************************************)
(* Inputs.                                                                 *)
(***************************************************************************)
\* uint32_t values as <<hi, lo>>: 0, 0xFF, 0xFFFF, 0xFFFFFF, 0x00FF00FF,
\* 0xFFFFFFFF.
ZeroData == <<0, 0>>
DataValues ==
    { ZeroData, <<0, 255>>, <<0, 65535>>, <<255, 65535>>, <<255, 255>>,
      <<65535, 65535>> }

Sizes == 0..5

Positions ==
    ((-1)..(MaxOriginalSize + MAX_ADDITIONAL_BUFFER_SIZE + PositionSlack))
        \cup {INT_MAX - 3, INT_MAX}

Zeros(n) == [i \in 1..n |-> 0]

(***************************************************************************)
(* State.                                                                  *)
(***************************************************************************)
VARIABLES
    mOriginalBuffer,            \* bytes of the caller's buffer
    mOriginalBufferSize,        \* const int
    mAdditionalBuffer,          \* std::vector<uint8_t>; Len is size()
    mUsedAdditionalBufferSize,  \* int
    pc,                         \* "idle", "returned" or "crashed"
    argSize, argPos,            \* size and *pos on entry of the last call
    outPos,                     \* *pos when the last call returned
    ret,                        \* value the last call returned
    stored,                     \* local offsets the last call stored to
    encoded,                    \* data the last call encoded; ZeroData when
                                \* it stored nothing
    appended,                   \* <<pos, size>> of the appends granted, in
                                \* the behaviours that keep this log
    written                     \* offsets of the additional buffer that a
                                \* call has stored a byte to

vars ==
    << mOriginalBuffer, mOriginalBufferSize, mAdditionalBuffer,
       mUsedAdditionalBufferSize, pc, argSize, argPos, outPos, ret, stored,
       encoded, appended, written >>

(***************************************************************************)
(* Read side.                                                              *)
(***************************************************************************)
getTailPosition == mOriginalBufferSize + mUsedAdditionalBufferSize

isInAdditionalBuffer(position) == position >= mOriginalBufferSize

\* getBuffer handing out the other buffer.
getBuffer_swapped(usesAdditionalBuffer) ==
    IF usesAdditionalBuffer THEN mOriginalBuffer ELSE mAdditionalBuffer

getBuffer(usesAdditionalBuffer) ==
    IF usesAdditionalBuffer THEN mAdditionalBuffer ELSE mOriginalBuffer

getOriginalBufferSize == mOriginalBufferSize

\* The offset of logical position p in the buffer it selects: the write
\* subtracts mOriginalBufferSize from *pos when it uses the additional buffer.
LocalOffset(p) == IF isInAdditionalBuffer(p) THEN p - mOriginalBufferSize ELSE p

(***************************************************************************)
(* Write side.                                                             *)
(***************************************************************************)
\* extendBuffer() without its test against MAX_ADDITIONAL_BUFFER_SIZE.
extendBuffer_noCeiling(buf) ==
    [ok |-> TRUE, buf |-> buf \o Zeros(EXTEND_ADDITIONAL_BUFFER_SIZE_STEP)]

\* extendBuffer() allocating a fresh vector instead of resizing.
extendBuffer_discards(buf) ==
    IF Len(buf) + EXTEND_ADDITIONAL_BUFFER_SIZE_STEP > MAX_ADDITIONAL_BUFFER_SIZE
    THEN [ok |-> FALSE, buf |-> buf]
    ELSE [ok |-> TRUE,
          buf |-> Zeros(Len(buf) + EXTEND_ADDITIONAL_BUFFER_SIZE_STEP)]

\* extendBuffer() growing the vector to twice its size.
extendBuffer_doubles(buf) ==
    IF Len(buf) + EXTEND_ADDITIONAL_BUFFER_SIZE_STEP > MAX_ADDITIONAL_BUFFER_SIZE
    THEN [ok |-> FALSE, buf |-> buf]
    ELSE [ok |-> TRUE, buf |-> buf \o Zeros(Len(buf))]

\* extendBuffer() on a vector buf: whether it grew, and the vector after.
\* resize() keeps the old elements and value-initialises the new ones.
extendBuffer(buf) ==
    IF Len(buf) + EXTEND_ADDITIONAL_BUFFER_SIZE_STEP > MAX_ADDITIONAL_BUFFER_SIZE
    THEN [ok |-> FALSE, buf |-> buf]
    ELSE [ok |-> TRUE,
          buf |-> buf \o Zeros(EXTEND_ADDITIONAL_BUFFER_SIZE_STEP)]

\* The append branch counting the bytes as used before it knows whether the
\* buffer could be extended.
appendToTail_usedFirst(size, sum) ==
    IF SumGt(sum, Len(mAdditionalBuffer))
    THEN LET e == extendBuffer(mAdditionalBuffer)
         IN  [ok |-> e.ok, used |-> mUsedAdditionalBufferSize + size,
              buf |-> e.buf]
    ELSE [ok |-> TRUE, used |-> mUsedAdditionalBufferSize + size,
          buf |-> mAdditionalBuffer]

\* The append branch counting one byte as used, whatever the size written.
appendToTail_countsOneByte(size, sum) ==
    IF SumGt(sum, Len(mAdditionalBuffer))
    THEN LET e == extendBuffer(mAdditionalBuffer)
         IN  IF ~e.ok
             THEN [ok |-> FALSE, used |-> mUsedAdditionalBufferSize,
                   buf |-> mAdditionalBuffer]
             ELSE [ok |-> TRUE, used |-> mUsedAdditionalBufferSize + 1,
                   buf |-> e.buf]
    ELSE [ok |-> TRUE, used |-> mUsedAdditionalBufferSize + 1,
          buf |-> mAdditionalBuffer]

\* The append branch testing pos alone, not pos + size, against size().
appendToTail_testsPosOnly(size, sum) ==
    IF mUsedAdditionalBufferSize > Len(mAdditionalBuffer)
    THEN LET e == extendBuffer(mAdditionalBuffer)
         IN  IF ~e.ok
             THEN [ok |-> FALSE, used |-> mUsedAdditionalBufferSize,
                   buf |-> mAdditionalBuffer]
             ELSE [ok |-> TRUE, used |-> mUsedAdditionalBufferSize + size,
                   buf |-> e.buf]
    ELSE [ok |-> TRUE, used |-> mUsedAdditionalBufferSize + size,
          buf |-> mAdditionalBuffer]

\* checkAndPrepareWriting, the branch "Append data to the tail": sum is
\* pos + size.  The value returned, and the used size and the vector left
\* behind.
appendToTail(size, sum) ==
    IF SumGt(sum, Len(mAdditionalBuffer))
    THEN LET e == extendBuffer(mAdditionalBuffer)
         IN  IF ~e.ok
             THEN [ok |-> FALSE, used |-> mUsedAdditionalBufferSize,
                   buf |-> mAdditionalBuffer]
             ELSE [ok |-> TRUE, used |-> mUsedAdditionalBufferSize + size,
                   buf |-> e.buf]
    ELSE [ok |-> TRUE, used |-> mUsedAdditionalBufferSize + size,
          buf |-> mAdditionalBuffer]

\* The test of the original buffer refusing a write that ends exactly at
\* its end.
violatesOriginalBoundary_exactEnd(p, sum) ==
    p < 0 \/ SumGeq(sum, mOriginalBufferSize)

\* checkAndPrepareWriting, the test of the original buffer:
\* pos < 0 || mOriginalBufferSize < pos + size
violatesOriginalBoundary(p, sum) ==
    p < 0 \/ SumGt(sum, mOriginalBufferSize)

\* checkAndPrepareWriting(pos, size): the value returned, and the used size
\* and the vector it leaves behind.
checkAndPrepareWriting(p, size, ovf) ==
    LET sum == IntSum(p, size, ovf)
        refused == [ok |-> FALSE, used |-> mUsedAdditionalBufferSize,
                    buf |-> mAdditionalBuffer]
        granted == [ok |-> TRUE, used |-> mUsedAdditionalBufferSize,
                    buf |-> mAdditionalBuffer]
    IN  IF isInAdditionalBuffer(p)
        THEN IF p = mUsedAdditionalBufferSize
             THEN appendToTail(size, sum)
             ELSE IF SumGeq(sum, mUsedAdditionalBufferSize)
                  THEN refused
                  ELSE granted
        ELSE IF violatesOriginalBoundary(p, sum)
             THEN refused
             ELSE granted

Pow256(i) == IF i = 0 THEN 1 ELSE IF i = 1 THEN 256 ELSE IF i = 2 THEN 65536
             ELSE 16777216

\* (data >> (i * 8)) & 0xFF
ShiftedByte(data, i) ==
    IF i < 2 THEN (data[2] \div Pow256(i)) % 256
    ELSE (data[1] \div Pow256(i - 2)) % 256

\* ByteArrayUtils::writeUintAndAdvancePosition(buffer, data, size, pos):
\* the j-th store (j = 1..size) goes to offset pos + j - 1 and holds the
\* bytes of data from the most significant of the size low bytes down.
StoreOffset(local, j) == WrapAdd(local, j - 1)
StoreByte(data, size, j) == ShiftedByte(data, size - j)

\* The buffer after the size stores; a store outside it changes none of
\* its bytes.
BytesWritten(buf, data, size, local) ==
    [i \in 1..Len(buf) |->
        IF \E j \in 1..size : StoreOffset(local, j) = i - 1
        THEN StoreByte(data, size,
                 CHOOSE j \in 1..size : StoreOffset(local, j) = i - 1)
        ELSE buf[i]]

StoreOffsets(size, local) == {StoreOffset(local, j) : j \in 1..size}

\* Whether pos + size overflows int, and the outcomes it then has.
Overflows(p, size) == size > 0 /\ p > INT_MAX - size
OutcomesOf(p, size) ==
    IF Overflows(p, size) THEN OverflowOutcomes ELSE {"wrap"}

\* The constructor counting the whole initial vector as used.
Init_usedIsInitialSize ==
    /\ mOriginalBufferSize \in 0..MaxOriginalSize
    /\ mOriginalBuffer = Zeros(mOriginalBufferSize)
    /\ mAdditionalBuffer = Zeros(INITIAL_ADDITIONAL_BUFFER_SIZE)
    /\ mUsedAdditionalBufferSize = INITIAL_ADDITIONAL_BUFFER_SIZE
    /\ pc = "idle"
    /\ argSize = 0
    /\ argPos = 0
    /\ outPos = 0
    /\ ret = FALSE
    /\ stored = {}
    /\ encoded = ZeroData
    /\ appended = {}
    /\ written = {}

Init ==
    /\ mOriginalBufferSize \in 0..MaxOriginalSize
    /\ mOriginalBuffer = Zeros(mOriginalBufferSize)
    /\ mAdditionalBuffer = Zeros(INITIAL_ADDITIONAL_BUFFER_SIZE)
    /\ mUsedAdditionalBufferSize = 0
    /\ pc = "idle"
    /\ argSize = 0
    /\ argPos = 0
    /\ outPos = 0
    /\ ret = FALSE
    /\ stored = {}
    /\ encoded = ZeroData
    /\ appended = {}
    /\ written = {}

\* The size test letting a 5-byte write through.
isValidSize_upTo5(size) == size >= 1 /\ size <= 5

\* The size test at the head of writeUintAndAdvancePosition.
isValidSize(size) == size >= 1 /\ size <= 4

\* The call returns false: *pos is left alone, and the state is as the code
\* before the return left it (used and buf).
ReturnFalse(size, p, used, buf) ==
    /\ pc' = "returned"
    /\ argSize' = size /\ argPos' = p
    /\ outPos' = p
    /\ ret' = FALSE
    /\ stored' = {}
    /\ encoded' = ZeroData
    /\ mUsedAdditionalBufferSize' = used
    /\ mAdditionalBuffer' = buf
    /\ UNCHANGED << mOriginalBuffer, mOriginalBufferSize, written >>

\* writeUintAndAdvancePosition(data, size, &pos) with *pos = p.
writeUintAndAdvancePosition(data, size, p, ovf) ==
    /\ pc # "crashed"
    /\ IF ~isValidSize(size)
       THEN ReturnFalse(size, p, mUsedAdditionalBufferSize, mAdditionalBuffer)
       ELSE
        LET chk == checkAndPrepareWriting(p, size, ovf)
            usesAdditionalBuffer == isInAdditionalBuffer(p)
            local == LocalOffset(p)
            target == IF usesAdditionalBuffer
                      THEN chk.buf ELSE mOriginalBuffer
            inside == StoreOffsets(size, local) \subseteq 0..(Len(target) - 1)
            after == WrapAdd(local, size)
        IN  IF ~chk.ok
            THEN ReturnFalse(size, p, chk.used, chk.buf)
            ELSE
             /\ mUsedAdditionalBufferSize' = chk.used
             /\ argSize' = size /\ argPos' = p
             /\ stored' = StoreOffsets(size, local)
             /\ encoded' = data
             /\ UNCHANGED mOriginalBufferSize
             /\ IF usesAdditionalBuffer
                THEN /\ mAdditionalBuffer' =
                            BytesWritten(chk.buf, data, size, local)
                     /\ written' = written \cup
                            (StoreOffsets(size, local)
                                 \cap (0..(Len(chk.buf) - 1)))
                     /\ UNCHANGED mOriginalBuffer
                ELSE /\ mOriginalBuffer' =
                            BytesWritten(mOriginalBuffer, data, size, local)
                     /\ mAdditionalBuffer' = chk.buf
                     /\ UNCHANGED written
             /\ \E oob \in (IF inside THEN {"none"} ELSE StrayStoreOutcomes) :
                  IF oob = "fault"
                  THEN /\ pc' = "crashed"
                       /\ ret' = FALSE
                       /\ outPos' = p
                  ELSE /\ pc' = "returned"
                       /\ ret' = TRUE
                       /\ outPos' = IF usesAdditionalBuffer
                                    THEN WrapAdd(after, mOriginalBufferSize)
                                    ELSE after

\* One call, with every outcome its undefined steps can have.
Call(data, size, p) ==
    \E ovf \in OutcomesOf(p, size) :
        writeUintAndAdvancePosition(data, size, p, ovf)

Write ==
    \E data \in DataValues, size \in Sizes, p \in Positions :
        /\ Call(data, size, p)
        /\ UNCHANGED appended

\* The same call, keeping the log of the appends it grants.  What is
\* granted does not depend on data, so one value is enough here.
LoggedWrite ==
    \E size \in Sizes, p \in Positions :
        /\ Call(ZeroData, size, p)
        /\ appended' =
              IF mUsedAdditionalBufferSize' # mUsedAdditionalBufferSize
              THEN appended \cup {<<p, size>>} ELSE appended

Next == Write

Spec == Init /\ [][Next]_vars

NextLogged == LoggedWrite

SpecLogged == Init /\ [][NextLogged]_vars

(***************************************************************************)
(* Properties.  In an action formula the primed call record (argSize',     *)
(* argPos', ret', outPos') is the call the step makes and the unprimed     *)
(* buffer state is the state the call starts from.                         *)
(***************************************************************************)
Returned == pc = "returned"
Succeeded == pc = "returned" /\ ret
Failed == pc = "returned" /\ ~ret

\* C1: a write of width k in 1..4 at position == tailPosition() succeeds
\* whenever usedAdditionalSize + k stays within the maximum additional
\* capacity, for every original size, and tailPosition() then has grown by
\* exactly k.
C1_AppendAtTailSucceeds ==
    [][(/\ argSize' \in 1..4
        /\ argPos' = getTailPosition
        /\ mUsedAdditionalBufferSize + argSize' <= MAX_ADDITIONAL_BUFFER_SIZE)
       => (/\ Succeeded'
           /\ getTailPosition' = getTailPosition + argSize')]_vars

\* C2: writing again, with the same width k, at a position p where an
\* earlier append of width k succeeded always succeeds and leaves
\* tailPosition() unchanged, the most recent append included.
C2_RewriteOfAppendSucceeds ==
    [][(<<argPos', argSize'>> \in appended)
       => (Succeeded' /\ getTailPosition' = getTailPosition)]_vars

\* C3: a write of width k at a position p >= originalSize that is not the
\* append position is refused whenever p + k reaches or exceeds
\* usedAdditionalSize (exact fit included) and is permitted only when
\* p + k < usedAdditionalSize.
C3_OverwriteOnlyStrictlyInside ==
    [][(/\ argSize' \in 1..4
        /\ argPos' >= mOriginalBufferSize
        /\ argPos' # getTailPosition)
       => (/\ (argPos' >= mUsedAdditionalBufferSize - argSize') => Failed'
           /\ Succeeded' => (argPos' < mUsedAdditionalBufferSize - argSize'))
      ]_vars

\* C4: whenever the write returns false, for any cause, usedAdditionalSize,
\* the capacity and every byte of both regions, and the caller's position
\* are what they were before the call.
C4_FailureChangesNothing ==
    [][Failed'
       => (/\ mUsedAdditionalBufferSize' = mUsedAdditionalBufferSize
           /\ mAdditionalBuffer' = mAdditionalBuffer
           /\ mOriginalBuffer' = mOriginalBuffer
           /\ mOriginalBufferSize' = mOriginalBufferSize
           /\ outPos' = argPos')]_vars

\* An append refused because the buffer cannot grow any more.
C4_Witness ==
    /\ Failed
    /\ argSize \in 1..4
    /\ mOriginalBufferSize = 0
    /\ argPos = mUsedAdditionalBufferSize
    /\ mUsedAdditionalBufferSize > 0

\* C5: every successful write of width k at p stores only to bytes that
\* exist in the region it selects: local offsets [p, p + k) inside
\* [0, originalSize), or [p - originalSize, p - originalSize + k) inside
\* [0, capacity).
C5_StoresStayInsideRegion ==
    Succeeded
    => LET local == LocalOffset(argPos)
           limit == Len(getBuffer(isInAdditionalBuffer(argPos)))
       IN  /\ stored = {o \in 0..(limit - 1) :
                           o >= local /\ o - local < argSize}
           /\ Cardinality(stored) = argSize

\* C6: an append at tailPosition() that would push usedAdditionalSize
\* beyond the maximum capacity fails and leaves tailPosition() unchanged,
\* and usedAdditionalSize never exceeds the maximum capacity.
C6_CeilingHolds ==
    [][/\ (/\ argSize' >= 1
           /\ argPos' = getTailPosition
           /\ mUsedAdditionalBufferSize + argSize'
                  > MAX_ADDITIONAL_BUFFER_SIZE)
          => (Failed' /\ getTailPosition' = getTailPosition)
       /\ mUsedAdditionalBufferSize' <= MAX_ADDITIONAL_BUFFER_SIZE]_vars

\* An append of a valid width refused at the ceiling, after earlier
\* appends.
C6_Witness ==
    /\ Failed
    /\ argSize \in 1..4
    /\ argPos = getTailPosition
    /\ mUsedAdditionalBufferSize > 0
    /\ mUsedAdditionalBufferSize + argSize > MAX_ADDITIONAL_BUFFER_SIZE

C8_PositionAdvancesBySize ==
    Succeeded => (outPos > argPos /\ outPos - argPos = argSize)

\* C9: a write whose byteWidth is outside [1, 4] returns failure at every
\* position and in every state, the tail included, and neither grows the
\* additional region nor increases usedAdditionalSize.
C9_InvalidWidthFails ==
    [][(argSize' \notin 1..4)
       => (/\ Failed'
           /\ mAdditionalBuffer' = mAdditionalBuffer
           /\ mUsedAdditionalBufferSize' = mUsedAdditionalBufferSize)]_vars

\* A 5-byte write at the tail of an additional region that is in use.
C9_Witness ==
    /\ Failed
    /\ argSize = 5
    /\ argPos = getTailPosition
    /\ mUsedAdditionalBufferSize > 0

\* Whether v fits in k bytes, and the value of the k bytes of view that
\* start at offset off, most significant byte first.
Representable(v, k) ==
    IF k >= 4 THEN TRUE
    ELSE IF k = 3 THEN v[1] < 256
    ELSE IF k = 2 THEN v[1] = 0
    ELSE v[1] = 0 /\ v[2] < 256

DecodedUint(view, k, off) ==
    LET b(i) == IF i < k THEN view[off + k - i] ELSE 0
    IN  << b(3) * 256 + b(2), b(1) * 256 + b(0) >>

\* C10: after a successful write of a value v that fits in k bytes, with
\* width k at position p, the k bytes found in the view
\* getBuffer(isInAdditionalBuffer(p)) at the local offset of p decode to v.
C10_RoundTrip ==
    LET view == getBuffer(isInAdditionalBuffer(argPos))
        local == LocalOffset(argPos)
    IN  (/\ Succeeded
         /\ Representable(encoded, argSize)
         /\ local >= 0 /\ local <= Len(view) - argSize)
        => DecodedUint(view, argSize, local) = encoded

\* 0x00FF00FF written with width 4 into the additional region behind an
\* earlier append, and 0xFFFF written with width 2 into the original region.
C10_Witness ==
    /\ Succeeded
    /\ \/ /\ argSize = 4 /\ encoded = <<255, 255>>
          /\ isInAdditionalBuffer(argPos) /\ LocalOffset(argPos) = 1
          /\ mAdditionalBuffer[3] = 255 /\ mAdditionalBuffer[4] = 0
       \/ /\ argSize = 2 /\ encoded = <<0, 65535>>
          /\ ~isInAdditionalBuffer(argPos) /\ argPos = 2
          /\ mOriginalBuffer[3] = 255 /\ mOriginalBuffer[2] = 0

\* C11: right after construction tailPosition() is originalSize, whatever
\* the original size; in every state tailPosition() is originalSize +
\* usedAdditionalSize, and originalSize never changes.
C11_TailPosition ==
    [][/\ (pc = "idle" => getTailPosition = mOriginalBufferSize)
       /\ mOriginalBufferSize' = mOriginalBufferSize
       /\ Len(mOriginalBuffer') = mOriginalBufferSize
       /\ getTailPosition' - mUsedAdditionalBufferSize' = mOriginalBufferSize
      ]_vars

\* The additional region is full after appends: the tail has moved by the
\* whole capacity and the original size is the one constructed with.
C11_Witness ==
    /\ Succeeded
    /\ mUsedAdditionalBufferSize = Len(mAdditionalBuffer)
    /\ Len(mAdditionalBuffer) > INITIAL_ADDITIONAL_BUFFER_SIZE
    /\ getTailPosition = Len(mOriginalBuffer) + Len(mAdditionalBuffer)

\* C12: in every state 0 <= usedAdditionalSize <= capacity of the
\* additional region: a granted append finds, after at most one growth
\* step, a capacity that holds the new usedAdditionalSize.
C12_UsedWithinCapacity ==
    /\ 0 <= mUsedAdditionalBufferSize
    /\ mUsedAdditionalBufferSize <= Len(mAdditionalBuffer)

\* An append stored beyond the initial capacity and left the grown region
\* exactly full.
C12_Witness ==
    /\ Succeeded
    /\ stored # {}
    /\ \A o \in stored : o >= INITIAL_ADDITIONAL_BUFFER_SIZE
    /\ mUsedAdditionalBufferSize = Len(mAdditionalBuffer)
    /\ argPos = getTailPosition - argSize

\* The step grows the additional region.
Grows == Len(mAdditionalBuffer') > Len(mAdditionalBuffer)

\* C13: when an append makes the additional region grow, every byte below
\* the old capacity and every byte of the original region has after the
\* growth the value it had before (the bytes the append itself then stores
\* are the write, not the growth); and an append refused at the ceiling
\* leaves everything written before readable and unchanged.
C13_GrowthKeepsContent ==
    [][/\ SubSeq(extendBuffer(mAdditionalBuffer).buf,
                 1, Len(mAdditionalBuffer)) = mAdditionalBuffer
       /\ Grows
          => /\ \A i \in 1..Len(mAdditionalBuffer) :
                    (i - 1) \notin stored'
                        => mAdditionalBuffer'[i] = mAdditionalBuffer[i]
             /\ mOriginalBuffer' = mOriginalBuffer
       /\ (Failed' /\ argSize' \in 1..4 /\ argPos' = getTailPosition)
          => /\ mAdditionalBuffer' = mAdditionalBuffer
             /\ mOriginalBuffer' = mOriginalBuffer
             /\ mUsedAdditionalBufferSize' = mUsedAdditionalBufferSize
      ]_vars

\* The region grew in an append behind a byte 0xFF written earlier: the
\* append started within the initial capacity and ended beyond it.
C13_Witness ==
    /\ Succeeded
    /\ mOriginalBufferSize = 0
    /\ argPos = mUsedAdditionalBufferSize - argSize
    /\ argPos > 0
    /\ argPos <= INITIAL_ADDITIONAL_BUFFER_SIZE
    /\ mUsedAdditionalBufferSize > INITIAL_ADDITIONAL_BUFFER_SIZE
    /\ mAdditionalBuffer[1] = 255

\* C14: the capacity of the additional region never decreases; it changes
\* only in an append at the tail whose bytes exceed the capacity, by
\* exactly one growth step per write; it is always the initial capacity
\* plus a whole number of steps, and never above the maximum capacity.
C14_CapacityGrowsInSteps ==
    [][/\ Len(mAdditionalBuffer') >= Len(mAdditionalBuffer)
       /\ Grows
          => /\ Len(mAdditionalBuffer') =
                   Len(mAdditionalBuffer) + EXTEND_ADDITIONAL_BUFFER_SIZE_STEP
             /\ Succeeded'
             /\ argPos' = getTailPosition
             /\ mUsedAdditionalBufferSize + argSize' > Len(mAdditionalBuffer)
       /\ Len(mAdditionalBuffer') <= MAX_ADDITIONAL_BUFFER_SIZE
       /\ Len(mAdditionalBuffer') >= INITIAL_ADDITIONAL_BUFFER_SIZE
       /\ (Len(mAdditionalBuffer') - INITIAL_ADDITIONAL_BUFFER_SIZE)
              % EXTEND_ADDITIONAL_BUFFER_SIZE_STEP = 0
      ]_vars

\* The capacity is one step above the initial one, and an append that fits
\* the grown capacity has just left it unchanged.
C14_Witness ==
    /\ Succeeded
    /\ Len(mAdditionalBuffer) =
          INITIAL_ADDITIONAL_BUFFER_SIZE + EXTEND_ADDITIONAL_BUFFER_SIZE_STEP
    /\ argPos = getTailPosition - argSize
    /\ LocalOffset(argPos) > INITIAL_ADDITIONAL_BUFFER_SIZE

\* C15: usedAdditionalSize never decreases and changes only in a
\* successful append, where it grows by exactly the byteWidth written;
\* overwrites, writes into the original region and failed writes leave it
\* unchanged.
C15_UsedGrowsOnlyByAppends ==
    [][/\ mUsedAdditionalBufferSize' >= mUsedAdditionalBufferSize
       /\ (mUsedAdditionalBufferSize' # mUsedAdditionalBufferSize)
          => /\ Succeeded'
             /\ argPos' = getTailPosition
             /\ mUsedAdditionalBufferSize' =
                   mUsedAdditionalBufferSize + argSize'
       /\ (~Succeeded' \/ argPos' # getTailPosition)
          => mUsedAdditionalBufferSize' = mUsedAdditionalBufferSize
      ]_vars

\* A successful overwrite strictly inside the used part of the additional
\* region.
C15_Witness ==
    /\ Succeeded
    /\ isInAdditionalBuffer(argPos)
    /\ argSize >= 2
    /\ argPos < mUsedAdditionalBufferSize - argSize
    /\ stored \subseteq 0..(mUsedAdditionalBufferSize - 2)

\* C16: in every state every logical position p with originalSize <= p <
\* tailPosition() has been the target of a byte store of a successful
\* write: the call that is granted an append stores exactly the k bytes
\* it has just committed.
C16_CommittedBytesWereWritten ==
    /\ \A o \in 0..(mUsedAdditionalBufferSize - 1) : o \in written
    /\ (Succeeded /\ isInAdditionalBuffer(argPos)
            /\ argPos = getTailPosition - argSize)
       => stored = (mUsedAdditionalBufferSize - argSize)
                       ..(mUsedAdditionalBufferSize - 1)

\* Several appends have committed bytes beyond the initial capacity, the
\* last of them more than one byte wide.
C16_Witness ==
    /\ Succeeded
    /\ argSize >= 2
    /\ argPos = getTailPosition - argSize
    /\ LocalOffset(argPos) > 0
    /\ mUsedAdditionalBufferSize > INITIAL_ADDITIONAL_BUFFER_SIZE
    /\ written = 0..(mUsedAdditionalBufferSize - 1)

\* C17: a successful write of width k at p changes exactly the k bytes of
\* one region and nothing else: for p < originalSize the bytes at offsets
\* [p, p + k) of the original region, the additional region untouched; for
\* p >= originalSize the bytes at offsets [p - originalSize,
\* p - originalSize + k) of the additional region, the original region
\* untouched; every other byte of both regions keeps its value.
C17_WriteChangesOnlyItsBytes ==
    [][Succeeded'
       => IF argPos' < mOriginalBufferSize
          THEN /\ stored' = {o \in 0..(mOriginalBufferSize - 1) :
                                o >= argPos' /\ o - argPos' < argSize'}
               /\ Cardinality(stored') = argSize'
               /\ mAdditionalBuffer' = mAdditionalBuffer
               /\ \A i \in 1..Len(mOriginalBuffer) :
                     (i - 1) \notin stored'
                         => mOriginalBuffer'[i] = mOriginalBuffer[i]
          ELSE /\ stored' = {o \in 0..(Len(mAdditionalBuffer') - 1) :
                                /\ o >= argPos' - mOriginalBufferSize
                                /\ o - (argPos' - mOriginalBufferSize)
                                       < argSize'}
               /\ Cardinality(stored') = argSize'
               /\ mOriginalBuffer' = mOriginalBuffer
               /\ \A i \in 1..Len(mAdditionalBuffer) :
                     (i - 1) \notin stored'
                         => mAdditionalBuffer'[i] = mAdditionalBuffer[i]
      ]_vars

\* C18: the append test compares the logical position with
\* usedAdditionalSize without subtracting originalSize, so for an instance
\* with originalSize > 0 no write at a position >= originalSize ever
\* succeeds, usedAdditionalSize stays 0, the capacity never grows and
\* tailPosition() is originalSize in every state.
C18_NoAdditionalWriteWithOriginal ==
    mOriginalBufferSize > 0
    => /\ mUsedAdditionalBufferSize = 0
       /\ Len(mAdditionalBuffer) = INITIAL_ADDITIONAL_BUFFER_SIZE
       /\ getTailPosition = mOriginalBufferSize
       /\ ~(Succeeded /\ argPos >= mOriginalBufferSize)

\* C19: with int 32 bits wide and pos + size computed modulo 2^32, a write
\* whose position p has p + byteWidth > 2^31 - 1 is refused and modifies
\* no byte: the boundary check cannot be bypassed by the overflow of
\* pos + size.
C19_OverflowCannotBypassCheck ==
    [][(argSize' \in 1..4 /\ Overflows(argPos', argSize'))
       => /\ Failed'
          /\ stored' = {}
          /\ mAdditionalBuffer' = mAdditionalBuffer
          /\ mOriginalBuffer' = mOriginalBuffer]_vars

TypeOK ==
    /\ mOriginalBufferSize \in 0..MaxOriginalSize
    /\ Len(mOriginalBuffer) = mOriginalBufferSize
    /\ pc \in {"idle", "returned", "crashed"}
    /\ ret \in BOOLEAN
====
